---- MODULE Spec2Model ----
(***************************************************************************)
(* A model of the CHIP-8 virtual machine of rheasan/chip8: the CPU of      *)
(* src/src/cpu.rs (memory, registers, stack, timers, decoder, sprite       *)
(* renderer), the keypad of src/src/keyboard.rs and the outer loop of      *)
(* src/src/chip8.rs.                                                       *)
(***************************************************************************)
EXTENDS Integers, Sequences, FiniteSets, TLC

\* ------------------------------------------------------------------------
\* Program constants
\* ------------------------------------------------------------------------

WIDTH == 64

HEIGHT == 32

MAX_PROGRAM_SIZE == 7860

HEX_SPRITE_SIZE == 5

\* vec![0; 8192] in Cpu::init
MEM_LEN == 8192

\* the call depth tested by 2NNN
MAX_CALL_DEPTH == 16

\* ------------------------------------------------------------------------
\* Bounds of the model
\* ------------------------------------------------------------------------

\* wall-clock time, in 1/60 s ticks, is observed up to MaxTime
MaxTime == 2

\* ------------------------------------------------------------------------
\* Machine arithmetic
\* ------------------------------------------------------------------------

RECURSIVE BitAnd(_, _)
BitAnd(a, b) ==
    IF a = 0 \/ b = 0 THEN 0
    ELSE (IF a % 2 = 1 /\ b % 2 = 1 THEN 1 ELSE 0) + 2 * BitAnd(a \div 2, b \div 2)

RECURSIVE BitOr(_, _)
BitOr(a, b) ==
    IF a = 0 THEN b
    ELSE IF b = 0 THEN a
    ELSE (IF a % 2 = 1 \/ b % 2 = 1 THEN 1 ELSE 0) + 2 * BitOr(a \div 2, b \div 2)

RECURSIVE BitXor(_, _)
BitXor(a, b) ==
    IF a = 0 THEN b
    ELSE IF b = 0 THEN a
    ELSE (IF a % 2 # b % 2 THEN 1 ELSE 0) + 2 * BitXor(a \div 2, b \div 2)

\* u8::wrapping_add
WrappingAdd(a, b) == (a + b) % 256

\* u8::wrapping_sub
WrappingSub(a, b) == (a - b + 256) % 256

\* u8 << 1
Shl1(b) == (b * 2) % 256

\* ------------------------------------------------------------------------
\* Byte vectors
\*
\* A Vec<u8> of fixed length (mem, d_buffer) is held as the function from
\* the indexes of its nonzero bytes to those bytes: an index outside the
\* domain holds 0.  The length of the vector is a constant of the program
\* (MEM_LEN, WIDTH * HEIGHT) and every index is checked against it where
\* the code indexes the vector.
\* ------------------------------------------------------------------------

\* vec![0; len]
ZeroVec == [a \in {} |-> 0]

\* v[a]
Get(v, a) == IF a \in DOMAIN v THEN v[a] ELSE 0

\* v[a] = byte
Put(v, a, byte) ==
    IF byte = 0 THEN [k \in DOMAIN v \ {a} |-> v[k]]
    ELSE [k \in DOMAIN v \cup {a} |-> IF k = a THEN byte ELSE v[k]]

\* v[base .. base + Len(bytes)].copy_from_slice(bytes)
CopyFromSlice(v, base, bytes) ==
    LET written == {base + k - 1 : k \in 1 .. Len(bytes)}
        nonzero == {base + k - 1 : k \in {j \in 1 .. Len(bytes) : bytes[j] # 0}}
    IN  [a \in (DOMAIN v \ written) \cup nonzero |->
            IF a \in written THEN bytes[a - base + 1] ELSE v[a]]

\* ------------------------------------------------------------------------
\* The hex font installed by Cpu::init
\* ------------------------------------------------------------------------

ZERO == <<240, 144, 144, 144, 240>>
ONE == <<32, 96, 32, 32, 112>>
TWO == <<240, 16, 240, 128, 240>>
THREE == <<240, 16, 240, 16, 240>>
FOUR == <<240, 128, 240, 16, 240>>
FIVE == <<240, 128, 240, 144, 240>>
SIX == <<240, 128, 240, 144, 240>>
SEVEN == <<240, 16, 32, 64, 64>>
EIGHT == <<240, 144, 240, 16, 240>>
NINE == <<240, 144, 240, 16, 240>>
A == <<240, 144, 240, 144, 144>>
B == <<224, 144, 224, 144, 224>>
C == <<240, 128, 128, 128, 240>>
D == <<224, 144, 144, 144, 224>>
E == <<240, 128, 240, 128, 240>>
F == <<240, 128, 240, 128, 128>>

sprites ==
    ZERO \o ONE \o TWO \o THREE \o FOUR \o FIVE \o SIX \o SEVEN \o EIGHT
         \o NINE \o A \o B \o C \o D \o E \o F

\* ------------------------------------------------------------------------
\* State
\* ------------------------------------------------------------------------

VARIABLES
    mem,              \* Cpu.mem: a byte vector of length MEM_LEN
    d_buffer,         \* Cpu.d_buffer: a byte vector of length WIDTH * HEIGHT
    gp_registers,     \* Cpu.gp_registers: [0 .. 15 -> u8]
    i,                \* Cpu.i: u16
    pc,               \* Cpu.pc: usize
    sp,               \* Cpu.sp: u8
    stack,            \* Cpu.stack: sequence of usize
    delay_timer,      \* Cpu.delay_timer: <<value, last tick instant>>
    sound_timer,      \* Cpu.sound_timer: <<value, last tick instant>>
    program_end_addr, \* Cpu.program_end_addr
    key_pressed,      \* KeyBoard.key_pressed: None or Some(u8)
    pressed,          \* the last key the window reported to check_keypresses
    scaled_buffer,    \* Chip8.scaled_buffer: the colour of each 8 x 8 block
    now,              \* Instant::now(), in 1/60 s ticks
    res,              \* the result of the last Cpu::step
    instruction,      \* the instruction fetched by the last Cpu::step
    loop_pc           \* position of the caller: load, step, reset_keys, poll, done, aborted

vars ==
    <<mem, d_buffer, gp_registers, i, pc, sp, stack, delay_timer, sound_timer,
      program_end_addr, key_pressed, pressed, scaled_buffer, now, res, instruction,
      loop_pc>>

\* Option<u8>, the type of KeyBoard.key_pressed
None == <<>>

Some(k) == <<k>>

\* pressed.last() when the window reports no key
NoKey == "None"

\* results of Cpu::step: Ok(redraw) or Err(kind(instr)); Panic is an abort
NoResult == [kind |-> "NoResult", redraw |-> FALSE, instr |-> 0]

Ok(redraw) == [kind |-> "Ok", redraw |-> redraw, instr |-> 0]

Err(kind, instr) == [kind |-> kind, redraw |-> FALSE, instr |-> instr]

Panic == [kind |-> "Panic", redraw |-> FALSE, instr |-> 0]

\* Cpu::init followed by KeyBoard::new
Init ==
    /\ mem = CopyFromSlice(ZeroVec, 0, sprites)
    /\ d_buffer = ZeroVec
    /\ gp_registers = [r \in 0 .. 15 |-> 0]
    /\ i = 0
    /\ pc = 512
    /\ sp = 0
    /\ stack = <<>>
    /\ delay_timer = <<0, 0>>
    /\ sound_timer = <<0, 0>>
    /\ program_end_addr = 0
    /\ key_pressed = None
    /\ pressed = NoKey
    /\ scaled_buffer = ZeroVec
    /\ now = 0
    /\ res = NoResult
    /\ instruction = 0
    /\ loop_pc = "load"

\* ------------------------------------------------------------------------
\* Cpu: helpers of step
\* ------------------------------------------------------------------------

\* the fields of Cpu that step mutates, with the result being built
CpuState ==
    [mem |-> mem, d_buffer |-> d_buffer, V |-> gp_registers, i |-> i, pc |-> pc,
     stack |-> stack, delay_timer |-> delay_timer, sound_timer |-> sound_timer,
     res |-> NoResult]

\* Cpu::is_valid_program_addr
is_valid_program_addr(addr) == addr >= 512 /\ addr <= program_end_addr

\* Cpu::get_next_instruction: Vec::get fails at and past mem.len()
CanFetch(m, p) == p < MEM_LEN /\ p + 1 < MEM_LEN

get_next_instruction(m, p) == Get(m, p) * 256 + Get(m, p + 1)

\* handle_timer, were a timer at 0 decremented as well
handle_timerMut(timer, t) ==
    IF t - timer[2] >= 1 THEN <<(timer[1] + 255) % 256, t>> ELSE timer

\* Cpu::handle_timer on a timer <<value, last_op>> at instant t
handle_timer(timer, t) ==
    IF timer[1] = 0 THEN timer
    ELSE IF t - timer[2] >= 1 THEN <<timer[1] - 1, t>>
    ELSE timer

\* the value returned at the end of a successful step
Redraw(instr) == BitAnd(instr, 53248) = 53248

Advance(c, k) == [c EXCEPT !.pc = c.pc + k]

Fail(c, e) == [c EXCEPT !.res = e]

\* ------------------------------------------------------------------------
\* Cpu::draw_sprite
\* ------------------------------------------------------------------------

\* Collides, were the flag raised by every pixel that was set before the blit
CollidesMut(prev_value, new_value) == prev_value = 1

\* should_set_flag |= prev_value == 1 && d_buffer[index] == 0
Collides(prev_value, new_value) == prev_value = 1 /\ new_value = 0

\* MsbOf, were the bit left where it is
MsbOfMut(b) == BitAnd(b, 128)

\* (*b & 0x80) >> 7
MsbOf(b) == BitAnd(b, 128) \div 128

\* the body of the inner loop for the sprite byte at addr and the pixel at
\* (coord_x, coord_y); d is [mem, d_buffer, flag, panic]
DrawPixel(d, addr, coord_x, coord_y) ==
    LET index == coord_x + coord_y * WIDTH
    IN  IF index >= WIDTH * HEIGHT
        THEN [d EXCEPT !.panic = TRUE]
        ELSE LET prev_value == Get(d.d_buffer, index)
                 b == Get(d.mem, addr)
                 new_value == BitXor(prev_value, MsbOf(b))
             IN  [d EXCEPT !.d_buffer = Put(d.d_buffer, index, new_value),
                           !.flag = d.flag \/ Collides(prev_value, new_value),
                           !.mem = Put(d.mem, addr, Shl1(b))]

\* the two loops, from row `row` (of n) and bit `bit` (of 8) on
RECURSIVE DrawLoop(_, _, _, _, _, _, _)
DrawLoop(d, sprite_start, n, x, y, row, bit) ==
    IF d.panic \/ row >= n THEN d
    ELSE IF bit >= 8 THEN DrawLoop(d, sprite_start, n, x, y, row + 1, 0)
    ELSE DrawLoop(DrawPixel(d, sprite_start + row, (x % WIDTH) + bit, (y % HEIGHT) + row),
                  sprite_start, n, x, y, row, bit + 1)

draw_sprite(c, n, x, y) ==
    LET sprite_start == c.i
        sprite_end == sprite_start + n
        d0 == [mem |-> c.mem, d_buffer |-> c.d_buffer, flag |-> FALSE, panic |-> FALSE]
    IN  IF sprite_end > MEM_LEN
        THEN [d0 EXCEPT !.panic = TRUE]
        ELSE DrawLoop(d0, sprite_start, n, x, y, 0, 0)

\* ------------------------------------------------------------------------
\* Cpu::step, one operator per arm of the match
\* ------------------------------------------------------------------------

\* ReturnTo, were the CALL itself executed again
ReturnToMut(addr) == addr

\* 00EE: the returned address is the instruction calling the subroutine, so
\* skip it
ReturnTo(addr) == addr + 2

\* Cls, were the framebuffer left as it is
ClsMut(d) == d

\* 00E0: d_buffer.fill(0)
Cls(d) == ZeroVec

\* 0x0000: 0NNN, 00E0, 00EE
Op0(c, instr) ==
    IF (BitAnd(instr, 3840) \div 256) # 0 THEN Advance(c, 2)
    ELSE IF BitAnd(instr, 255) = 224
         THEN Advance([c EXCEPT !.d_buffer = Cls(c.d_buffer)], 2)
    ELSE IF BitAnd(instr, 255) = 238
         THEN IF c.stack = <<>> THEN Fail(c, Err("BadReturn", instr))
              ELSE LET addr == c.stack[Len(c.stack)]
                       c1 == [c EXCEPT !.stack = SubSeq(c.stack, 1, Len(c.stack) - 1)]
                   IN  IF ~is_valid_program_addr(addr)
                       THEN Fail(c1, Err("BadJumpAddr", instr))
                       ELSE [c1 EXCEPT !.pc = ReturnTo(addr)]
    ELSE Fail(c, Err("BadInstruction", instr))

\* 0x1000: 1NNN
Op1(c, instr, nnn) ==
    IF ~is_valid_program_addr(nnn) THEN Fail(c, Err("BadJumpAddr", instr))
    ELSE [c EXCEPT !.pc = nnn]

\* Op2, were the depth tested after the push
Op2Mut(c, instr, nnn) ==
    IF Len(c.stack) > MAX_CALL_DEPTH THEN Fail(c, Err("MaxCallDepthReached", instr))
    ELSE [c EXCEPT !.stack = Append(c.stack, c.pc), !.pc = nnn]

\* 0x2000: 2NNN
Op2(c, instr, nnn) ==
    IF Len(c.stack) = MAX_CALL_DEPTH THEN Fail(c, Err("MaxCallDepthReached", instr))
    ELSE [c EXCEPT !.stack = Append(c.stack, c.pc), !.pc = nnn]

\* 0x3000: 3XNN
Op3(c, x, nn) == Advance(IF c.V[x] = nn THEN Advance(c, 2) ELSE c, 2)

\* Op4, were it to skip on equality as 3XNN does
Op4Mut(c, x, nn) == Advance(IF c.V[x] = nn THEN Advance(c, 2) ELSE c, 2)

\* 0x4000: 4XNN
Op4(c, x, nn) == Advance(IF c.V[x] # nn THEN Advance(c, 2) ELSE c, 2)

\* 0x5000: 5XY0
Op5(c, instr, x, y) ==
    IF BitAnd(instr, 15) # 0 THEN Fail(c, Err("BadInstruction", instr))
    ELSE Advance(IF c.V[x] = c.V[y] THEN Advance(c, 2) ELSE c, 2)

\* 0x6000: 6XNN
Op6(c, x, nn) == Advance([c EXCEPT !.V[x] = nn], 2)

\* 0x7000: 7XNN
Op7(c, x, nn) == Advance([c EXCEPT !.V[x] = WrappingAdd(c.V[x], nn)], 2)

\* u8::checked_add is None exactly when the sum does not fit in a u8
CheckedAddIsSome(a, b) == a + b <= 255

\* Add8XY4, were the flag written before the sum
Add8XY4Mut(V, x, y) ==
    LET sum == V[x] + V[y]
        V1 == [V EXCEPT ![15] = IF sum > 255 THEN 1 ELSE 0]
    IN  [V1 EXCEPT ![x] = BitAnd(sum, 255)]

\* 8XY4: the registers after the Some and the None arm
Add8XY4(V, x, y) ==
    IF CheckedAddIsSome(V[x], V[y])
    THEN LET V1 == [V EXCEPT ![x] = V[x] + V[y]]
         IN  [V1 EXCEPT ![15] = 0]
    ELSE LET sum == V[x] + V[y]
             V1 == [V EXCEPT ![x] = BitAnd(sum, 255)]
         IN  [V1 EXCEPT ![15] = 1]

\* 8XY5: the flag is written first, then the difference is read and stored
Sub8XY5(V, x, y) ==
    LET V1 == [V EXCEPT ![15] = IF V[y] <= V[x] THEN 1 ELSE 0]
    IN  [V1 EXCEPT ![x] = WrappingSub(V1[x], V1[y])]

\* 8XY6
Shr8XY6(V, x, y) ==
    LET V1 == [V EXCEPT ![15] = BitAnd(V[y], 1)]
    IN  [V1 EXCEPT ![x] = V1[y] \div 2]

\* Subn8XY7, were the flag raised only by a strictly smaller difference
Subn8XY7Mut(V, x, y) ==
    LET V1 == [V EXCEPT ![x] = WrappingSub(V[y], V[x])]
    IN  [V1 EXCEPT ![15] = IF V1[x] < V1[y] THEN 1 ELSE 0]

\* 8XY7: the difference is stored first, then the flag compares the registers
Subn8XY7(V, x, y) ==
    LET V1 == [V EXCEPT ![x] = WrappingSub(V[y], V[x])]
    IN  [V1 EXCEPT ![15] = IF V1[x] <= V1[y] THEN 1 ELSE 0]

\* 8XYE
Shl8XYE(V, x, y) ==
    LET V1 == [V EXCEPT ![15] = BitAnd(V[y], 128) \div 128]
    IN  [V1 EXCEPT ![x] = Shl1(V1[y])]

\* 0x8000: 8XYn
Op8(c, instr, x, y, n) ==
    CASE n = 0 -> Advance([c EXCEPT !.V[x] = c.V[y]], 2)
      [] n = 1 -> Advance([c EXCEPT !.V[x] = BitOr(c.V[x], c.V[y])], 2)
      [] n = 2 -> Advance([c EXCEPT !.V[x] = BitAnd(c.V[x], c.V[y])], 2)
      [] n = 3 -> Advance([c EXCEPT !.V[x] = BitXor(c.V[x], c.V[y])], 2)
      [] n = 4 -> Advance([c EXCEPT !.V = Add8XY4(c.V, x, y)], 2)
      [] n = 5 -> Advance([c EXCEPT !.V = Sub8XY5(c.V, x, y)], 2)
      [] n = 6 -> Advance([c EXCEPT !.V = Shr8XY6(c.V, x, y)], 2)
      [] n = 7 -> Advance([c EXCEPT !.V = Subn8XY7(c.V, x, y)], 2)
      [] n = 14 -> Advance([c EXCEPT !.V = Shl8XYE(c.V, x, y)], 2)
      [] OTHER -> Fail(c, Err("BadInstruction", instr))

\* 0x9000: 9XY0
Op9(c, instr, x, y) ==
    IF BitAnd(instr, 15) # 0 THEN Fail(c, Err("BadInstruction", instr))
    ELSE Advance(IF c.V[x] # c.V[y] THEN Advance(c, 2) ELSE c, 2)

\* 0xa000: ANNN
OpA(c, nnn) == Advance([c EXCEPT !.i = nnn], 2)

\* 0xb000: BNNN
OpB(c, nnn) == Advance([c EXCEPT !.pc = c.V[0] + nnn], 2)

\* 0xc000: CXNN, random being the byte drawn by rand::random
OpC(c, x, nn, random) == Advance([c EXCEPT !.V[x] = BitAnd(random, nn)], 2)

\* 0xd000: DXYN
OpD(c, x, y, n) ==
    LET d == draw_sprite(c, n, c.V[x], c.V[y])
        c1 == [c EXCEPT !.mem = d.mem, !.d_buffer = d.d_buffer]
    IN  IF d.panic THEN Fail(c1, Panic)
        ELSE Advance([c1 EXCEPT !.V[15] = IF d.flag THEN 1 ELSE 0], 2)

\* EX9E: the pc after the match on the current key
Skp(p, key, vx) ==
    IF key # None
    THEN IF key[1] = vx THEN p + 4 ELSE p
    ELSE p + 2

\* EXA1: the pc after the match on the current key
Sknp(p, key, vx) ==
    IF key # None
    THEN IF key[1] # vx THEN p + 4 ELSE p
    ELSE p + 2

\* 0xe000: EX9E, EXA1
OpE(c, instr, x, key) ==
    CASE BitAnd(instr, 255) = 158 -> [c EXCEPT !.pc = Skp(c.pc, key, c.V[x])]
      [] BitAnd(instr, 255) = 161 -> [c EXCEPT !.pc = Sknp(c.pc, key, c.V[x])]
      [] OTHER -> Fail(c, Err("BadInstruction", instr))

\* WaitKey, were PC advanced on an empty keypad too
WaitKeyMut(c, x, key) ==
    IF key # None THEN Advance([c EXCEPT !.V[x] = key[1]], 2) ELSE Advance(c, 2)

\* FX0A
WaitKey(c, x, key) ==
    IF key # None THEN Advance([c EXCEPT !.V[x] = key[1]], 2) ELSE c

\* self.i += v: a u16 addition, which on overflow aborts when the build
\* checks overflow (overflow_checks) and wraps when it does not
AddToI(c, v, overflow_checks) ==
    IF c.i + v > 65535
    THEN IF overflow_checks THEN Fail(c, Panic) ELSE [c EXCEPT !.i = (c.i + v) % 65536]
    ELSE [c EXCEPT !.i = c.i + v]

\* StoreBcd, were the tens digit vx / 10
StoreBcdMut(c, x) ==
    LET vx == c.V[x]
        addr == c.i
        m1 == Put(c.mem, addr, vx \div 100)
        m2 == Put(m1, addr + 1, vx \div 10)
        m3 == Put(m2, addr + 2, vx % 10)
    IN  IF addr >= MEM_LEN THEN Fail(c, Panic)
        ELSE IF addr + 1 >= MEM_LEN THEN Fail([c EXCEPT !.mem = m1], Panic)
        ELSE IF addr + 2 >= MEM_LEN THEN Fail([c EXCEPT !.mem = m2], Panic)
        ELSE Advance([c EXCEPT !.mem = m3], 2)

\* FX33
StoreBcd(c, x) ==
    LET vx == c.V[x]
        addr == c.i
        m1 == Put(c.mem, addr, vx \div 100)
        m2 == Put(m1, addr + 1, (vx % 100) \div 10)
        m3 == Put(m2, addr + 2, vx % 10)
    IN  IF addr >= MEM_LEN THEN Fail(c, Panic)
        ELSE IF addr + 1 >= MEM_LEN THEN Fail([c EXCEPT !.mem = m1], Panic)
        ELSE IF addr + 2 >= MEM_LEN THEN Fail([c EXCEPT !.mem = m2], Panic)
        ELSE Advance([c EXCEPT !.mem = m3], 2)

\* StoreRegs, were V[X] left out of the copy
StoreRegsMut(c, x, overflow_checks) ==
    LET addr == c.i
    IN  IF addr + x >= MEM_LEN THEN Fail(c, Panic)
        ELSE LET c1 == [c EXCEPT !.mem = CopyFromSlice(c.mem, addr,
                                                 [k \in 1 .. x |-> c.V[k - 1]])]
                 c2 == AddToI(c1, x + 1, overflow_checks)
             IN  IF c2.res = Panic THEN c2 ELSE Advance(c2, 2)

\* FX55
StoreRegs(c, x, overflow_checks) ==
    LET addr == c.i
    IN  IF addr + x >= MEM_LEN THEN Fail(c, Panic)
        ELSE LET c1 == [c EXCEPT !.mem = CopyFromSlice(c.mem, addr,
                                                 [k \in 1 .. x + 1 |-> c.V[k - 1]])]
                 c2 == AddToI(c1, x + 1, overflow_checks)
             IN  IF c2.res = Panic THEN c2 ELSE Advance(c2, 2)

\* FX65
LoadRegs(c, x, overflow_checks) ==
    LET addr == c.i
    IN  IF addr + x >= MEM_LEN THEN Fail(c, Panic)
        ELSE LET c1 == [c EXCEPT !.V = [r \in 0 .. 15 |->
                                           IF r <= x THEN Get(c.mem, addr + r) ELSE c.V[r]]]
                 c2 == AddToI(c1, x + 1, overflow_checks)
             IN  IF c2.res = Panic THEN c2 ELSE Advance(c2, 2)

\* 0xf000: FXnn, t being Instant::now()
OpF(c, instr, x, key, t, overflow_checks) ==
    CASE BitAnd(instr, 255) = 7 -> Advance([c EXCEPT !.V[x] = c.delay_timer[1]], 2)
      [] BitAnd(instr, 255) = 10 -> WaitKey(c, x, key)
      [] BitAnd(instr, 255) = 21 -> Advance([c EXCEPT !.delay_timer = <<c.V[x], t>>], 2)
      [] BitAnd(instr, 255) = 24 -> Advance([c EXCEPT !.sound_timer = <<c.V[x], t>>], 2)
      [] BitAnd(instr, 255) = 30 ->
            LET c1 == AddToI(c, c.V[x], overflow_checks)
            IN  IF c1.res = Panic THEN c1 ELSE Advance(c1, 2)
      [] BitAnd(instr, 255) = 41 ->
            IF c.V[x] > 15 THEN Fail(c, Err("BadInstruction", instr))
            ELSE Advance([c EXCEPT !.i = c.V[x] * HEX_SPRITE_SIZE], 2)
      [] BitAnd(instr, 255) = 51 -> StoreBcd(c, x)
      [] BitAnd(instr, 255) = 85 -> StoreRegs(c, x, overflow_checks)
      [] BitAnd(instr, 255) = 101 -> LoadRegs(c, x, overflow_checks)
      [] OTHER -> Fail(c, Err("BadInstruction", instr))

\* the match on instruction & 0xf000
Execute(c, instr, key, t, random, overflow_checks) ==
    LET nnn == BitAnd(instr, 4095)
        x == BitAnd(instr, 3840) \div 256
        y == BitAnd(instr, 240) \div 16
        nn == BitAnd(instr, 255)
        n == BitAnd(instr, 15)
        family == BitAnd(instr, 61440) \div 4096
    IN  CASE family = 0 -> Op0(c, instr)
          [] family = 1 -> Op1(c, instr, nnn)
          [] family = 2 -> Op2(c, instr, nnn)
          [] family = 3 -> Op3(c, x, nn)
          [] family = 4 -> Op4(c, x, nn)
          [] family = 5 -> Op5(c, instr, x, y)
          [] family = 6 -> Op6(c, x, nn)
          [] family = 7 -> Op7(c, x, nn)
          [] family = 8 -> Op8(c, instr, x, y, n)
          [] family = 9 -> Op9(c, instr, x, y)
          [] family = 10 -> OpA(c, nnn)
          [] family = 11 -> OpB(c, nnn)
          [] family = 12 -> OpC(c, x, nn, random)
          [] family = 13 -> OpD(c, x, y, n)
          [] family = 14 -> OpE(c, instr, x, key)
          [] OTHER -> OpF(c, instr, x, key, t, overflow_checks)

\* Cpu::step on the state c with the keypad holding key
step(c, key, t, random, overflow_checks) ==
    IF ~CanFetch(c.mem, c.pc) THEN Fail(c, Err("FailedToReadInstruction", 0))
    ELSE LET instr == get_next_instruction(c.mem, c.pc)
             c1 == [c EXCEPT !.sound_timer = handle_timer(c.sound_timer, t),
                             !.delay_timer = handle_timer(c.delay_timer, t)]
             c2 == Execute(c1, instr, key, t, random, overflow_checks)
         IN  IF c2.res = NoResult THEN [c2 EXCEPT !.res = Ok(Redraw(instr))] ELSE c2

\* ------------------------------------------------------------------------
\* KeyBoard
\* ------------------------------------------------------------------------

\* the match of KeyBoard::set_key_pressed; 255 for every other key
KeyValue(key) ==
    CASE key = "Key1" -> 1
      [] key = "Key2" -> 2
      [] key = "Key3" -> 3
      [] key = "Key4" -> 12
      [] key = "Q" -> 4
      [] key = "W" -> 5
      [] key = "E" -> 6
      [] key = "R" -> 13
      [] key = "A" -> 7
      [] key = "S" -> 8
      [] key = "D" -> 9
      [] key = "F" -> 14
      [] key = "Z" -> 10
      [] key = "X" -> 0
      [] key = "C" -> 11
      [] key = "V" -> 15
      [] OTHER -> 255

\* set_key_pressed, were every key of the host a key of the keypad
set_key_pressedMut(held, key) ==
    IF key = NoKey THEN held ELSE Some(KeyValue(key))

\* KeyBoard::set_key_pressed(key) on a keypad holding held
set_key_pressed(held, key) ==
    IF key = NoKey THEN held
    ELSE IF KeyValue(key) = 255 THEN None
    ELSE Some(KeyValue(key))

\* ------------------------------------------------------------------------
\* Actions
\* ------------------------------------------------------------------------

\* Cpu::add_program(program), called once before the loop starts
AddProgram(program) ==
    /\ loop_pc = "load"
    /\ IF Len(program) > MAX_PROGRAM_SIZE
       THEN /\ loop_pc' = "done"
            /\ UNCHANGED <<mem, program_end_addr>>
       ELSE IF Len(program) + 512 > MEM_LEN
       THEN /\ loop_pc' = "aborted"
            /\ UNCHANGED <<mem, program_end_addr>>
       ELSE /\ mem' = CopyFromSlice(mem, 512, program)
            /\ program_end_addr' = 512 + Len(program)
            /\ loop_pc' = "step"
    /\ UNCHANGED <<d_buffer, gp_registers, i, pc, sp, stack, delay_timer, sound_timer,
                   key_pressed, pressed, scaled_buffer, now, res, instruction>>

\* the bytes rand::random may return to the CXNN at p, if there is one
RandomBytes(m, p) ==
    IF CanFetch(m, p) /\ get_next_instruction(m, p) \div 4096 = 12
    THEN {0, 85, 255} ELSE {0}

\* whether the build checks arithmetic overflow, for the FXnn at p, if there is one
OverflowChecks(m, p) ==
    IF CanFetch(m, p) /\ get_next_instruction(m, p) \div 4096 = 15
    THEN BOOLEAN ELSE {FALSE}

\* Chip8::run: let res = self.cpu.step(&self.io.keyboard)
Step ==
    /\ loop_pc = "step"
    /\ \E random \in RandomBytes(mem, pc), overflow_checks \in OverflowChecks(mem, pc) :
          LET r == step(CpuState, key_pressed, now, random, overflow_checks)
          IN  /\ mem' = r.mem
              /\ d_buffer' = r.d_buffer
              /\ gp_registers' = r.V
              /\ i' = r.i
              /\ pc' = r.pc
              /\ stack' = r.stack
              /\ delay_timer' = r.delay_timer
              /\ sound_timer' = r.sound_timer
              /\ res' = r.res
              /\ instruction' = IF CanFetch(mem, pc) THEN get_next_instruction(mem, pc)
                                ELSE instruction
              /\ loop_pc' = IF r.res = Panic THEN "aborted" ELSE "reset_keys"
    /\ UNCHANGED <<sp, program_end_addr, key_pressed, pressed, scaled_buffer, now>>

\* MatchRes, were the loop to carry on after an error
MatchResMut(r) == "poll"

\* Chip8::run: match res: the Ok arm polls the keys, the Err arm returns
MatchRes(r) == IF r.kind = "Ok" THEN "poll" ELSE "done"

\* Chip8::run: self.reset_keys(), then the match on res
ResetKeys ==
    /\ loop_pc = "reset_keys"
    /\ key_pressed' = None
    /\ loop_pc' = MatchRes(res)
    /\ UNCHANGED <<mem, d_buffer, gp_registers, i, pc, sp, stack, delay_timer,
                   sound_timer, program_end_addr, pressed, scaled_buffer, now, res,
                   instruction>>

\* u8::to_argb, the u32 held as its four bytes: u32::MAX for 1, else 0
to_argb(val) == IF val = 1 THEN <<255, 255, 255, 255>> ELSE <<0, 0, 0, 0>>

\* Chip8::scale_d_buffer: every pixel of d fills its 8 x 8 block with its
\* colour; the block of pixel a is held at a
scale_d_buffer(d) ==
    [a \in {k \in DOMAIN d : to_argb(d[k]) # to_argb(0)} |-> to_argb(d[a])]

\* Chip8::run: the Ok arm: self.check_keypresses(), key being
\* pressed.last(), then update_window if the step drew
CheckKeypresses(key) ==
    /\ loop_pc = "poll"
    /\ pressed' = key
    /\ IF key = "NumPad3"
       THEN /\ loop_pc' = "done"
            /\ UNCHANGED <<key_pressed, scaled_buffer>>
       ELSE /\ key_pressed' = set_key_pressed(key_pressed, key)
            /\ scaled_buffer' = IF res.redraw THEN scale_d_buffer(d_buffer)
                                ELSE scaled_buffer
            /\ loop_pc' = "step"
    /\ UNCHANGED <<mem, d_buffer, gp_registers, i, pc, sp, stack, delay_timer,
                   sound_timer, program_end_addr, now, res, instruction>>

\* 1/60 s of wall-clock time passes
Tick ==
    /\ loop_pc \in {"step", "reset_keys", "poll"}
    /\ now < MaxTime
    /\ now' = now + 1
    /\ UNCHANGED <<mem, d_buffer, gp_registers, i, pc, sp, stack, delay_timer,
                   sound_timer, program_end_addr, key_pressed, pressed,
                   scaled_buffer, res, instruction, loop_pc>>

\* Cpu::reset, called between two programs by a user of Cpu; the fill
\* panics, after the assignments, when 0x200 ..= program_end_addr is not a
\* range of mem
Reset ==
    /\ loop_pc \in {"load", "step", "done"}
    /\ i' = 0
    /\ pc' = 512
    /\ sp' = 0
    /\ stack' = <<>>
    /\ delay_timer' = <<0, now>>
    /\ sound_timer' = <<0, now>>
    /\ IF 512 > program_end_addr + 1 \/ program_end_addr + 1 > MEM_LEN
       THEN /\ loop_pc' = "aborted"
            /\ UNCHANGED mem
       ELSE /\ mem' = [a \in DOMAIN mem \ (512 .. program_end_addr) |-> mem[a]]
            /\ loop_pc' = "load"
    /\ UNCHANGED <<d_buffer, gp_registers, program_end_addr, key_pressed, pressed,
                   scaled_buffer, now, res, instruction>>

\* ------------------------------------------------------------------------
\* Programs
\* ------------------------------------------------------------------------

\* the two bytes of each 16-bit word, big-endian
RECURSIVE Bytes(_)
Bytes(words) ==
    IF words = <<>> THEN <<>>
    ELSE <<Head(words) \div 256, Head(words) % 256>> \o Bytes(Tail(words))

\* sprite data of the drawing programs, loaded at 0x210
SpriteData == <<255, 129>>

\* 6X vx, 6Y vy, A addr, DXYN, DXYN, then a jump to itself
DrawTwice(x, y, vx, vy, n, addr) ==
    Bytes(<<24576 + x * 256 + vx, 24576 + y * 256 + vy, 40960 + addr,
            53248 + x * 256 + y * 16 + n, 53248 + x * 256 + y * 16 + n,
            4096 + 522, 0, 0>>) \o SpriteData

\* 6X vx, 6Y vy, A 0x210, DXYN, A addr, DXYN, then a jump to itself
DrawOver(x, y, vx, vy, n, addr) ==
    Bytes(<<24576 + x * 256 + vx, 24576 + y * 256 + vy, 40960 + 528,
            53248 + x * 256 + y * 16 + n, 40960 + addr,
            53248 + x * 256 + y * 16 + n, 4096 + 524, 0>>) \o SpriteData

\* LD V0, vx; DRW V0, V0, n of the glyph at 0; CLS; LD I, 5; DRW V0, V0, n;
\* then a jump to itself
ClsProgram(vx, n) ==
    Bytes(<<24576 + vx, 53248 + n, 224, 40960 + 5, 53248 + n, 4096 + 522>>)

DrawPrograms ==
    { ClsProgram(vx, n) : vx \in {0, 10}, n \in {1, 5} }
    \cup
    { DrawTwice(xy[1], xy[2], vx, vy, n, addr) :
        xy \in {<<0, 1>>, <<15, 1>>, <<1, 15>>}, vx \in {0, 62, 126},
        vy \in {0, 31, 33}, n \in {1, 2, 5}, addr \in {528, 5} }
    \cup
    { DrawOver(xy[1], xy[2], vx, vy, n, 5) :
        xy \in {<<0, 1>>, <<15, 1>>, <<1, 15>>}, vx \in {0, 62, 126},
        vy \in {0, 31, 33}, n \in {1, 2, 5} }

\* the keys the window reports while a drawing program runs
DrawKeys == {NoKey, "X"}

NextDraw ==
    \/ \E program \in DrawPrograms : AddProgram(program)
    \/ Step
    \/ ResetKeys
    \/ \E key \in DrawKeys : CheckKeypresses(key)
    \/ Tick

SpecDraw == Init /\ [][NextDraw]_vars

\* 6X vx, then EX9E (op = 0xE09E), EXA1 (0xE0A1) or FX0A (0xF00A) on VX, then
\* a jump to itself at each of the two addresses the instruction can reach
KeyProgram(x, vx, op) ==
    Bytes(<<24576 + x * 256 + vx, op + x * 256, 4096 + 516, 4096 + 518>>)

KeyPrograms ==
    { KeyProgram(x, vx, op) :
        x \in {0, 10, 15}, vx \in {0, 1, 200}, op \in {57502, 57505, 61450} }

\* the keys the window reports while a keypad program runs
KeypadKeys ==
    {NoKey, "Key1", "Key2", "Key3", "Key4", "Q", "W", "E", "R", "A", "S", "D", "F",
     "Z", "X", "C", "V", "NumPad1", "NumPad3", "Escape"}

NextKeys ==
    \/ \E program \in KeyPrograms : AddProgram(program)
    \/ Step
    \/ ResetKeys
    \/ \E key \in KeypadKeys : CheckKeypresses(key)
    \/ Tick

SpecKeys == Init /\ [][NextKeys]_vars

\* 6X a, 6Y b, then 8XYn, then a jump to itself
ArithProgram(x, y, a, b, n) ==
    Bytes(<<24576 + x * 256 + a, 24576 + y * 256 + b,
            32768 + x * 256 + y * 16 + n, 4096 + 518>>)

ArithPrograms ==
    { ArithProgram(xy[1], xy[2], a, b, n) :
        xy \in {<<10, 11>>, <<15, 1>>, <<1, 15>>, <<2, 2>>, <<15, 15>>},
        a \in {0, 1, 10, 250, 255}, b \in {0, 1, 11, 250, 255},
        n \in {4, 5, 6, 7, 14} }

\* the keys the window reports while an arithmetic program runs
ArithKeys == {NoKey, "X"}

NextArith ==
    \/ \E program \in ArithPrograms : AddProgram(program)
    \/ Step
    \/ ResetKeys
    \/ \E key \in ArithKeys : CheckKeypresses(key)
    \/ Tick

SpecArith == Init /\ [][NextArith]_vars

\* SYS, JP nnn, then four SYS: 12 bytes at 0x200 .. 0x20B
JumpProgram(nnn) == Bytes(<<273, 4096 + nnn, 273, 273, 273, 273>>)

\* CALL 0x208, four SYS, RET
ScenarioProgram == Bytes(<<8712, 273, 273, 273, 273, 238>>)

\* ADD V0, 1; SE V0, k; CALL 0x200; RET: k - 1 nested calls, then the returns
NestProgram(k) == Bytes(<<28673, 12288 + k, 8704, 238>>)

\* CALL nnn alone
CallProgram(nnn) == Bytes(<<8192 + nnn>>)

\* LD V1, 0xEE; LD I, 0x060; LD [I], V1; CALL 0x005: the bytes 20 60 of the
\* font glyph at 0x005 are a CALL 0x060, where the program has stored a RET
FontCallProgram == Bytes(<<25070, 41056, 61781, 8197>>)

\* LD V0, 0x22; LD V1, 0x0A; LD I, 0x20C; LD [I], V1; JP 0x20C; RET: the
\* program stores a CALL 0x20A right after its last byte and jumps to it
EndCallProgram == Bytes(<<24610, 24842, 41484, 61781, 4620, 238>>)

\* LD V0, v0; JP V0, nnn
BranchProgram(v0, nnn) == Bytes(<<24576 + v0, 45056 + nnn>>)

\* DRW V0, V0, 5 of the glyph at I = 0, then JP 0x000
DrawThenFail == Bytes(<<53253, 4096>>)

\* SYS nnn alone
SysProgram(nnn) == Bytes(<<nnn>>)

FlowPrograms ==
    { JumpProgram(nnn) : nnn \in {0, 511, 512, 522, 523, 524, 525, 767, 4095} }
    \cup { SysProgram(nnn) : nnn \in {0, 17, 225, 3840} }
    \cup {ScenarioProgram, FontCallProgram, EndCallProgram, DrawThenFail}
    \cup { NestProgram(k) : k \in {1, 2, 3, 17, 18} }
    \cup { CallProgram(nnn) : nnn \in {0, 514, 4095} }
    \cup { BranchProgram(v0, nnn) : v0 \in {0, 255}, nnn \in {510, 4095} }

\* the keys the window reports while a control-flow program runs
FlowKeys == {NoKey, "X"}

NextFlow ==
    \/ \E program \in FlowPrograms : AddProgram(program)
    \/ Step
    \/ ResetKeys
    \/ \E key \in FlowKeys : CheckKeypresses(key)
    \/ Tick

SpecFlow == Init /\ [][NextFlow]_vars

\* LD V0, k; LD DT, V0; pad SYS; LD V1, DT; JP to itself
TimerProgram(k, pad) ==
    Bytes(<<24576 + k, 61461>> \o [j \in 1 .. pad |-> 273]
          \o <<61703, 4096 + 512 + 2 * (pad + 3)>>)

\* LD V0, k; LD ST, V0; LD V1, DT; JP to itself
SoundProgram(k) == Bytes(<<24576 + k, 61464, 61703, 4614>>)

\* LD V0, 2; LD DT, V0; LD V1, 3; LD ST, V1; LD V2, DT; JP to itself
BothTimers == Bytes(<<24578, 61461, 24835, 61720, 61959, 4096 + 522>>)

TimerPrograms ==
    { TimerProgram(k, pad) : k \in {0, 1, 2, 3}, pad \in {0, 1} }
    \cup {BothTimers}
    \cup { SoundProgram(k) : k \in {0, 2} }

\* the keys the window reports while a timer program runs
TimerKeys == {NoKey}

NextTimer ==
    \/ \E program \in TimerPrograms : AddProgram(program)
    \/ Step
    \/ ResetKeys
    \/ \E key \in TimerKeys : CheckKeypresses(key)
    \/ Tick

SpecTimer == Init /\ [][NextTimer]_vars

\* LD Vr, base + r for r in 0 .. x; LD I, addr; LD [I], Vx; LD Vr, 0xEE for
\* r in 0 .. x; LD I, addr; LD Vx, [I]; JP to itself
RoundTripProgram(x, base, addr) ==
    Bytes([r \in 1 .. x + 1 |-> 24576 + 256 * (r - 1) + ((base + r - 1) % 256)]
          \o <<40960 + addr, 61525 + 256 * x>>
          \o [r \in 1 .. x + 1 |-> 24576 + 256 * (r - 1) + 238]
          \o <<40960 + addr, 61541 + 256 * x, 4096 + 512 + 2 * (2 * x + 6)>>)

RegsPrograms ==
    { RoundTripProgram(x, base, addr) :
        x \in {0, 1, 2, 15}, base \in {1, 250}, addr \in {520, 768, 4080} }

\* the keys the window reports while a register program runs
RegsKeys == {NoKey}

NextRegs ==
    \/ \E program \in RegsPrograms : AddProgram(program)
    \/ Step
    \/ ResetKeys
    \/ \E key \in RegsKeys : CheckKeypresses(key)
    \/ Tick

SpecRegs == Init /\ [][NextRegs]_vars

\* LD Vx, a; LD Vy, b; the skip instruction; a jump to itself for each of
\* the two places the skip leads to
SkipProgram(x, y, a, b, instr) ==
    Bytes(<<24576 + 256 * x + a, 24576 + 256 * y + b, instr, 4096 + 518, 4096 + 520>>)

\* 3XKK and 4XKK for three KK, 5XY0 and 9XY0
SkipInstructions(x, y) ==
    { op * 4096 + 256 * x + kk : op \in {3, 4}, kk \in {0, 7, 255} }
    \cup { op * 4096 + 256 * x + 16 * y : op \in {5, 9} }

SkipPrograms ==
    UNION { { SkipProgram(xy[1], xy[2], ab[1], ab[2], instr) :
                instr \in SkipInstructions(xy[1], xy[2]) } :
              xy \in {<<0, 1>>, <<1, 15>>, <<15, 15>>},
              ab \in {<<0, 0>>, <<7, 0>>, <<7, 7>>, <<255, 7>>} }

\* the keys the window reports while a skip program runs
SkipKeys == {NoKey}

NextSkip ==
    \/ \E program \in SkipPrograms : AddProgram(program)
    \/ Step
    \/ ResetKeys
    \/ \E key \in SkipKeys : CheckKeypresses(key)
    \/ Tick

SpecSkip == Init /\ [][NextSkip]_vars

\* LD Vx, v; LD I, addr; LD B, Vx; JP to itself
BcdProgram(x, v, addr) ==
    Bytes(<<24576 + 256 * x + v, 40960 + addr, 61491 + 256 * x, 4096 + 518>>)

\* LD I, 0xFFF; LD V0, 0xFF; count times ADD I, V0 (ADD V1, 1; SE V1, count;
\* JP 0x204); then the instruction tail
AddIProgram(count, tail) ==
    Bytes(<<45055, 24831, 61470, 28929, 12544 + count, 4096 + 516, tail>>)

\* JP to itself, LD B, V0, LD [I], V0, LD V0, [I] and DRW V0, V0, 1
Tails == {4096 + 524, 61491, 61525, 61541, 53249}

IndexPrograms ==
    { BcdProgram(x, v, addr) :
        x \in {0, 15}, v \in {0, 9, 10, 99, 100, 199, 255}, addr \in {768, 4093} }
    \cup { AddIProgram(count, tail) : count \in {1, 17}, tail \in Tails }
    \cup { AddIProgram(242, 4096 + 524) }

\* the keys the window reports while an index program runs
IndexKeys == {NoKey}

NextIndex ==
    \/ \E program \in IndexPrograms : AddProgram(program)
    \/ Step
    \/ ResetKeys
    \/ \E key \in IndexKeys : CheckKeypresses(key)
    \/ Tick

SpecIndex == Init /\ [][NextIndex]_vars

\* a program of n bytes, all zero but the last
LongProgram(n) == [k \in 1 .. n |-> IF k = n THEN 255 ELSE 0]

\* lengths around 0xFFF - 0x200 + 1 and MAX_PROGRAM_SIZE, and past MEM_LEN - 0x200
LongLengths == {3584, 3585, 7681, 7860, 7861}

LoadPrograms ==
    { LongProgram(n) : n \in LongLengths }
    \cup {<<>>, <<1>>, ScenarioProgram, EndCallProgram, TimerProgram(2, 0)}

\* the keys the window reports between two loads
LoadKeys == {NoKey}

\* a user of Cpu that loads, runs and resets, as the tests do
NextLoad ==
    \/ \E program \in LoadPrograms : AddProgram(program)
    \/ Step
    \/ ResetKeys
    \/ \E key \in LoadKeys : CheckKeypresses(key)
    \/ Tick
    \/ Reset

SpecLoad == Init /\ [][NextLoad]_vars

\* ------------------------------------------------------------------------
\* Vocabulary of the properties
\* ------------------------------------------------------------------------

\* the instruction the next Cpu::step fetches
Fetched == get_next_instruction(mem, pc)

\* this transition is a call of Cpu::step that fetched an instruction
StepTaken == loop_pc = "step" /\ loop_pc' # "step" /\ CanFetch(mem, pc)

\* the fields of an instruction
FamilyOf(instr) == instr \div 4096

XOf(instr) == (instr \div 256) % 16

YOf(instr) == (instr \div 16) % 16

NOf(instr) == instr % 16

NNOf(instr) == instr % 256

\* this transition is a step that executes a DXYN whose sprite lies in memory
DrwTaken == StepTaken /\ FamilyOf(Fetched) = 13 /\ i + NOf(Fetched) <= MEM_LEN

\* the state right after a step that executed a DXYN
AfterDrw == loop_pc \in {"reset_keys", "aborted"} /\ FamilyOf(instruction) = 13

\* bit k of a byte, bit 0 being the leftmost
SpriteBit(byte, k) == (byte \div (2 ^ (7 - k))) % 2

\* pixel p of the framebuffer after a blit that clips at the right and the
\* bottom edge, for the DXYN about to be executed
ClippedPixel(p) ==
    LET x0 == gp_registers[XOf(Fetched)] % WIDTH
        y0 == gp_registers[YOf(Fetched)] % HEIGHT
        cx == p % WIDTH
        cy == p \div WIDTH
    IN  IF cx >= x0 /\ cx <= x0 + 7 /\ cy >= y0 /\ cy <= y0 + NOf(Fetched) - 1
        THEN BitXor(Get(d_buffer, p), SpriteBit(Get(mem, i + cy - y0), cx - x0))
        ELSE Get(d_buffer, p)

\* ------------------------------------------------------------------------
\* C1 - C5: the sprite renderer, under SpecDraw
\* ------------------------------------------------------------------------

\* C1: DXYN starts at (V[X] mod 64, V[Y] mod 32) and clips: every pixel of the
\* framebuffer ends as the XOR of its old value with the sprite bit that falls
\* on it, and a sprite pixel past column 63 or row 31 changes no pixel.
C1_ClipsAtEdges ==
    [][DrwTaken =>
         \A p \in 0 .. WIDTH * HEIGHT - 1 : Get(d_buffer', p) = ClippedPixel(p)]_vars

\* C2: for every V[X], V[Y] and N the blit of DXYN indexes only cells of the
\* framebuffer, so the step does not abort.
C2_BlitInBounds == [][DrwTaken => res'.kind # "Panic"]_vars

\* C3: memory is written by FX33 and FX55 only: every other step, DXYN
\* included, leaves all of memory (sprite bytes and font included) unchanged.
C3_DrawOnlyReadsMemory ==
    [][(StepTaken /\ ~(FamilyOf(Fetched) = 15 /\ NNOf(Fetched) \in {51, 85}))
         => mem' = mem]_vars

\* the state of the Cpu after step, ready for the next call
AfterStep(c) == [c EXCEPT !.res = NoResult]

\* C4: when the next two instructions are the same DXYN and both steps succeed
\* with the same I, V[X] and V[Y], the framebuffer after the second is the
\* framebuffer before the first.
C4_DrawTwiceErases ==
    (/\ loop_pc = "step"
     /\ CanFetch(mem, pc) /\ CanFetch(mem, pc + 2)
     /\ FamilyOf(Fetched) = 13
     /\ get_next_instruction(mem, pc + 2) = Fetched)
    => LET s1 == step(CpuState, key_pressed, now, 0, FALSE)
           s2 == step(AfterStep(s1), key_pressed, now, 0, FALSE)
       IN  (/\ s1.res.kind = "Ok" /\ s2.res.kind = "Ok"
            /\ s1.i = i
            /\ s1.V[XOf(Fetched)] = gp_registers[XOf(Fetched)]
            /\ s1.V[YOf(Fetched)] = gp_registers[YOf(Fetched)])
           => s2.d_buffer = d_buffer

\* C5: after a DXYN that completes, VF is 1 if some pixel of the framebuffer
\* went from 1 to 0 in the blit and 0 if none did, also when X or Y is 0xF.
C5_CollisionFlag ==
    [][(DrwTaken /\ res'.kind = "Ok") =>
         gp_registers'[15] =
            IF \E p \in 0 .. WIDTH * HEIGHT - 1 :
                  Get(d_buffer, p) = 1 /\ Get(d_buffer', p) = 0
            THEN 1 ELSE 0]_vars

\* a DXYN with X = 0xF has just erased a pixel and reported the collision
C5_Witness ==
    /\ AfterDrw /\ res.kind = "Ok"
    /\ XOf(instruction) = 15
    /\ gp_registers[15] = 1
    /\ d_buffer # ZeroVec

\* ------------------------------------------------------------------------
\* C6 - C9: the redraw signal and the keypad instructions, under SpecKeys
\* ------------------------------------------------------------------------

\* C6: a successful step returns true exactly when the top nibble of the
\* executed instruction is 0xD.
C6_RedrawIffDrw ==
    [][(StepTaken /\ res'.kind = "Ok") =>
         (res'.redraw <=> FamilyOf(Fetched) = 13)]_vars

\* this transition is a step that executes EXnn or FXnn with the low byte nn
KeyOpTaken(family, nn) ==
    StepTaken /\ FamilyOf(Fetched) = family /\ NNOf(Fetched) = nn

\* C7: EX9E advances PC by 4 when a key is held and equals V[X], and by 2 in
\* every other case.
C7_SkpAdvances ==
    [][KeyOpTaken(14, 158) =>
         pc' = IF key_pressed # None /\ key_pressed = Some(gp_registers[XOf(Fetched)])
               THEN pc + 4 ELSE pc + 2]_vars

\* C8: EXA1 advances PC by 4 when no key is held or the held key differs from
\* V[X], and by 2 when the held key equals V[X].
C8_SknpConverse ==
    [][KeyOpTaken(14, 161) =>
         pc' = IF key_pressed = None \/ key_pressed # Some(gp_registers[XOf(Fetched)])
               THEN pc + 4 ELSE pc + 2]_vars

\* C9: a step of FX0A with no key held succeeds and leaves PC and every V
\* register unchanged; with a key K held it sets V[X] to K and advances PC by
\* 2.  In the outer loop a hex key reported by a poll is the held key when the
\* poll returns, and stays held until the step that follows.
C9_WaitForKey ==
    [][/\ KeyOpTaken(15, 10) =>
            /\ res'.kind = "Ok"
            /\ IF key_pressed = None
               THEN pc' = pc /\ gp_registers' = gp_registers
               ELSE /\ pc' = pc + 2
                    /\ \E k \in 0 .. 15 :
                          /\ key_pressed = Some(k)
                          /\ gp_registers' = [gp_registers EXCEPT ![XOf(Fetched)] = k]
       /\ (loop_pc = "poll" /\ loop_pc' # "poll" /\ KeyValue(pressed') \in 0 .. 15)
            => (loop_pc' = "step" /\ key_pressed' = Some(KeyValue(pressed')))
       /\ (loop_pc = "step" /\ loop_pc' = "step") => key_pressed' = key_pressed]_vars

\* an FX0A that waited on an empty keypad has been released by the key the
\* last poll reported
C9_Witness ==
    /\ loop_pc = "reset_keys" /\ res.kind = "Ok"
    /\ FamilyOf(instruction) = 15 /\ NNOf(instruction) = 10
    /\ KeyValue(pressed) \in 0 .. 15
    /\ key_pressed = Some(KeyValue(pressed))
    /\ gp_registers[XOf(instruction)] = KeyValue(pressed)
    /\ pc = 516

\* ------------------------------------------------------------------------
\* C10: 8XY4, under SpecArith
\* ------------------------------------------------------------------------

\* this transition is a step that executes 8XYn
ArithTaken(n) == StepTaken /\ FamilyOf(Fetched) = 8 /\ NOf(Fetched) = n

OldVX == gp_registers[XOf(Fetched)]

OldVY == gp_registers[YOf(Fetched)]

\* C11: after 8XY5, for all X and Y (Y = 0xF included), VF is 1 when the old
\* V[X] is at least the old V[Y] and 0 otherwise, and V[X] (for X other than
\* 0xF, where the register holds the flag) is the old V[X] minus the old V[Y]
\* mod 256.
C11_SubWithBorrow ==
    [][ArithTaken(5) =>
         /\ XOf(Fetched) # 15 =>
               gp_registers'[XOf(Fetched)] = (OldVX - OldVY + 256) % 256
         /\ gp_registers'[15] = IF OldVX >= OldVY THEN 1 ELSE 0]_vars

\* C12 as claimed: after 8XY7, for all X and Y, V[X] is the old V[Y] minus the
\* old V[X] mod 256 and VF is 1 exactly when the old V[Y] is at least the old
\* V[X].
C12_SubnAsClaimed ==
    [][ArithTaken(7) =>
         /\ gp_registers'[XOf(Fetched)] = (OldVY - OldVX + 256) % 256
         /\ (gp_registers'[15] = 1 <=> OldVY >= OldVX)]_vars

\* C12 amended: after 8XY7, for all X and Y, VF is 1 when the old V[Y] is at
\* least the old V[X] and 0 otherwise, and for X other than 0xF V[X] is the old
\* V[Y] minus the old V[X] mod 256.
C12_SubnWithBorrow ==
    [][ArithTaken(7) =>
         /\ XOf(Fetched) # 15 =>
               gp_registers'[XOf(Fetched)] = (OldVY - OldVX + 256) % 256
         /\ gp_registers'[15] = IF OldVY >= OldVX THEN 1 ELSE 0]_vars

\* 8AB7 has just subtracted 0xFA from 0x0B: V[A] = 0x11 and VF = 0
C12_Witness ==
    /\ loop_pc = "reset_keys" /\ res.kind = "Ok"
    /\ instruction = 35511
    /\ gp_registers[11] = 11
    /\ gp_registers[10] = 17
    /\ gp_registers[15] = 0

\* C13: after 8XY6, VF is the low bit of the old V[Y], V[X] (for X other than
\* 0xF) is the old V[Y] shifted right by one, and V[Y] is unchanged when Y is
\* neither X nor 0xF.
C13_ShrFromVY ==
    [][ArithTaken(6) =>
         /\ XOf(Fetched) # 15 => gp_registers'[XOf(Fetched)] = OldVY \div 2
         /\ gp_registers'[15] = OldVY % 2
         /\ YOf(Fetched) \notin {XOf(Fetched), 15} =>
               gp_registers'[YOf(Fetched)] = OldVY]_vars

\* the flag of 8XYn for the old values vx and vy
FlagOf(n, vx, vy) ==
    CASE n = 4 -> IF vx + vy > 255 THEN 1 ELSE 0
      [] n = 5 -> IF vx >= vy THEN 1 ELSE 0
      [] n = 6 -> vy % 2
      [] n = 7 -> IF vy >= vx THEN 1 ELSE 0
      [] n = 14 -> vy \div 128

\* the main result of 8XYn for the old values vx and vy
ResultOf(n, vx, vy) ==
    CASE n = 4 -> (vx + vy) % 256
      [] n = 5 -> (vx - vy + 256) % 256
      [] n = 6 -> vy \div 2
      [] n = 7 -> (vy - vx + 256) % 256
      [] n = 14 -> (vy * 2) % 256

\* C14: every flag-writing 8XYn (n in 4, 5, 6, 7, E) computes its main result
\* from the old registers and writes VF last: V[X] (X other than 0xF) is the
\* result for the old V[X] and V[Y], and VF is the flag, also when X is 0xF.
C14_FlagWrittenLast ==
    [][(StepTaken /\ FamilyOf(Fetched) = 8 /\ NOf(Fetched) \in {4, 5, 6, 7, 14}) =>
         /\ XOf(Fetched) # 15 =>
               gp_registers'[XOf(Fetched)] = ResultOf(NOf(Fetched), OldVX, OldVY)
         /\ gp_registers'[15] = FlagOf(NOf(Fetched), OldVX, OldVY)]_vars

\* ------------------------------------------------------------------------
\* Jumps, calls and returns

\* the address field of an instruction
NNNOf(instr) == instr % 4096

\* the address of the last byte of the loaded program: add_program copies
\* the program to 0x200 and records 0x200 + program.len()
LastProgramByte == program_end_addr - 1

JpTaken == StepTaken /\ FamilyOf(Fetched) = 1

CallTaken == StepTaken /\ FamilyOf(Fetched) = 2

RetTaken == StepTaken /\ Fetched = 238

\* the entry 00EE pops
Top == stack[Len(stack)]

\* the stack without the entry 00EE pops
Front == SubSeq(stack, 1, Len(stack) - 1)

\* C15: 1NNN sets PC to NNN iff 0x200 <= NNN <= the address of the last
\* byte of the program; for every other NNN, the first address past the
\* program included, the step fails with BadJumpAddr(instruction) and PC is
\* unchanged.
C15_JumpBounds ==
    [][JpTaken =>
         IF NNNOf(Fetched) >= 512 /\ NNNOf(Fetched) <= LastProgramByte
         THEN pc' = NNNOf(Fetched) /\ res'.kind = "Ok"
         ELSE res' = Err("BadJumpAddr", Fetched) /\ pc' = pc]_vars

C17_CallDepth ==
    [][/\ Len(stack') <= 16
       /\ CallTaken =>
              IF Len(stack) = 16
              THEN res' = Err("MaxCallDepthReached", Fetched) /\ stack' = stack
              ELSE /\ res'.kind = "Ok"
                   /\ stack' = Append(stack, pc) /\ pc' = NNNOf(Fetched)]_vars

\* a seventeenth nested CALL has failed
C17_Witness ==
    /\ loop_pc = "reset_keys" /\ res = Err("MaxCallDepthReached", 8704)
    /\ Len(stack) = 16

\* C18: 00EE with an empty stack fails with BadReturn(instruction); 00EE
\* whose popped address is outside 0x200 .. the address of the last byte of
\* the program fails with BadJumpAddr(instruction); PC is unchanged in both
\* cases.
C18_ReturnFailures ==
    [][RetTaken =>
         /\ stack = <<>> => res' = Err("BadReturn", Fetched) /\ pc' = pc
         /\ stack # <<>> /\ (Top < 512 \/ Top > LastProgramByte) =>
                res' = Err("BadJumpAddr", Fetched) /\ pc' = pc]_vars

\* C19: PC stays in [0, 4096) in every state the program reaches.
C19_PcInMemory == pc >= 0 /\ pc < 4096

\* C20: a step whose PC or PC + 1 is greater than 0xFFF fails with
\* FailedToReadInstruction and changes nothing of the machine; any other
\* step fetches mem[PC] * 256 + mem[PC + 1].
C20_FetchBounds ==
    [][loop_pc = "step" /\ loop_pc' # "step" =>
         IF pc > 4095 \/ pc + 1 > 4095
         THEN /\ res'.kind = "FailedToReadInstruction"
              /\ UNCHANGED <<mem, d_buffer, gp_registers, i, pc, sp, stack,
                             delay_timer, sound_timer, program_end_addr,
                             key_pressed>>
         ELSE instruction' = Get(mem, pc) * 256 + Get(mem, pc + 1)]_vars

\* ------------------------------------------------------------------------
\* Stack pointer, loading and reset

\* C21: SP equals the number of entries on the call stack in every state.
C21_SpIsStackDepth == sp = Len(stack)

\* C22: add_program rejects every program longer than 0xFFF - 0x200 + 1 =
\* 3584 bytes, leaving memory and the end address unchanged, and accepts
\* every program of at most 3584 bytes.
C22_LoadBound ==
    [][\A program \in LoadPrograms :
         AddProgram(program) =>
            IF Len(program) > 3584
            THEN loop_pc' = "done" /\ UNCHANGED <<mem, program_end_addr>>
            ELSE loop_pc' = "step"]_vars

\* C23: after a successful add_program(p), mem[0x200 + k] = p[k] for every
\* k < len(p), every byte below 0x200 and above the program is unchanged,
\* and the recorded end address is the address of the last program byte.
C23_LoadCopies ==
    [][\A program \in LoadPrograms :
         AddProgram(program) /\ loop_pc' = "step" =>
            /\ \A k \in 1 .. Len(program) : Get(mem', 512 + k - 1) = program[k]
            /\ \A a \in DOMAIN mem \cup DOMAIN mem' :
                  (a < 512 \/ a >= 512 + Len(program)) => Get(mem', a) = Get(mem, a)
            /\ program_end_addr' = 512 + Len(program) - 1]_vars

\* C24: reset() sets I = 0, PC = 0x200, SP = 0, empties the stack, sets both
\* timers to 0 and zeroes the bytes from 0x200 to the last byte of the
\* program; the end address and every other byte of memory, the font
\* included, are unchanged.
C24_ResetFrame ==
    [][Reset =>
         /\ i' = 0 /\ pc' = 512 /\ sp' = 0 /\ stack' = <<>>
         /\ delay_timer'[1] = 0 /\ sound_timer'[1] = 0
         /\ program_end_addr' = program_end_addr
         /\ \A a \in DOMAIN mem \cup DOMAIN mem' :
               IF a >= 512 /\ a <= LastProgramByte THEN Get(mem', a) = 0
               ELSE Get(mem', a) = Get(mem, a)]_vars

\* ------------------------------------------------------------------------
\* Timers and errors

\* the larger of two integers
Max(a, b) == IF a >= b THEN a ELSE b

\* C25: an FX07 executed when T ticks of 1/60 s have passed since the delay
\* timer held K reads max(0, K - T), however many steps ran in between: a
\* step after a stall of several ticks takes all of them off the timer.
C25_TimerFollowsClock ==
    [][StepTaken /\ FamilyOf(Fetched) = 15 /\ NNOf(Fetched) = 7 =>
         gp_registers'[XOf(Fetched)] =
            Max(0, delay_timer[1] - (now - delay_timer[2]))]_vars

\* the last step returned an ExecuteError
Failed == res.kind \notin {"NoResult", "Ok", "Panic"}

\* C26: once a step has returned an ExecuteError the loop executes no
\* further step and neither the Cpu nor the window changes again.
C26_ErrorIsTerminal ==
    [][Failed =>
         /\ loop_pc' \in {"reset_keys", "done"}
         /\ UNCHANGED <<mem, d_buffer, gp_registers, i, pc, sp, stack,
                        delay_timer, sound_timer, program_end_addr,
                        scaled_buffer, res, instruction>>]_vars

\* the loop has returned on the BadJumpAddr of the JP after a DRW that
\* was shown in the window
C26_Witness ==
    /\ loop_pc = "done" /\ res = Err("BadJumpAddr", 4096)
    /\ scaled_buffer # ZeroVec /\ scaled_buffer = scale_d_buffer(d_buffer)

\* ------------------------------------------------------------------------
\* Keypad

\* the keymap the program prints: <<key of the host, key of the keypad>>
Keymap ==
    {<<"Key1", 1>>, <<"Key2", 2>>, <<"Key3", 3>>, <<"Key4", 12>>,
     <<"Q", 4>>, <<"W", 5>>, <<"E", 6>>, <<"R", 13>>,
     <<"A", 7>>, <<"S", 8>>, <<"D", 9>>, <<"F", 14>>,
     <<"Z", 10>>, <<"X", 0>>, <<"C", 11>>, <<"V", 15>>}

C28_SysIsNoOp ==
    [][StepTaken /\ FamilyOf(Fetched) = 0 /\ Fetched \notin {224, 238} =>
         /\ res'.kind = "Ok" /\ pc' = pc + 2
         /\ UNCHANGED <<mem, d_buffer, gp_registers, i, sp, stack,
                        program_end_addr>>]_vars

\* the encodings C29 lists, V being the registers before the step
BadEncoding(instr, V) ==
    \/ FamilyOf(instr) \in {5, 9} /\ NOf(instr) # 0
    \/ FamilyOf(instr) = 8 /\ NOf(instr) \in {8, 9, 10, 11, 12, 13, 15}
    \/ FamilyOf(instr) = 14 /\ NNOf(instr) \notin {158, 161}
    \/ FamilyOf(instr) = 15 /\ NNOf(instr) \notin {7, 10, 21, 24, 30, 41, 51, 85, 101}
    \/ FamilyOf(instr) = 15 /\ NNOf(instr) = 41 /\ V[XOf(instr)] > 15

\* C29: a step fails with BadInstruction(instr), instr being the fetched
\* instruction, for exactly the encodings 5XYn and 9XYn with n # 0, 8XYn
\* with n in 8 .. D or F, EXnn other than 9E and A1, FXnn other than 07, 0A,
\* 15, 18, 1E, 29, 33, 55, 65, and FX29 with V[X] > 0xF.
C29_BadInstructionExactly ==
    [][StepTaken =>
         /\ res'.kind = "BadInstruction" <=> BadEncoding(Fetched, gp_registers)
         /\ res'.kind = "BadInstruction" => res' = Err("BadInstruction", Fetched)]_vars

\* ------------------------------------------------------------------------
\* Register store and load

\* n calls of Cpu::step from c, none of them failing
RECURSIVE RunSteps(_, _, _)
RunSteps(c, n, overflow_checks) ==
    IF n = 0 THEN c
    ELSE RunSteps(AfterStep(step(c, key_pressed, now, 0, overflow_checks)), n - 1,
                  overflow_checks)

\* the instruction at address a
InstrAt(a) == get_next_instruction(mem, a)

\* the next step is an FX55 with I .. I + X inside 0x000 .. 0xFFF and outside
\* the program, and the code after it overwrites V0 .. VX, sets I to what it
\* is now and executes FX65 with the same X
RoundTripAhead ==
    /\ loop_pc = "step" /\ CanFetch(mem, pc)
    /\ FamilyOf(Fetched) = 15 /\ NNOf(Fetched) = 85
    /\ i + XOf(Fetched) < 4096
    /\ (i + XOf(Fetched) < 512 \/ i > program_end_addr)
    /\ \A r \in 0 .. XOf(Fetched) : InstrAt(pc + 2 + 2 * r) = 24576 + 256 * r + 238
    /\ InstrAt(pc + 2 * XOf(Fetched) + 4) = 40960 + i
    /\ InstrAt(pc + 2 * XOf(Fetched) + 6) = 61541 + 256 * XOf(Fetched)

\* C30: FX55, then overwriting V0 .. VX and restoring I, then FX65 with the
\* same X restores V0 .. VX to their values before the FX55; each of FX55
\* and FX65 leaves I at its old value + X + 1.
C30_StoreLoadRoundTrip ==
    RoundTripAhead =>
        \A overflow_checks \in BOOLEAN :
            LET x == XOf(Fetched)
                stored == RunSteps(CpuState, 1, overflow_checks)
                restored == RunSteps(CpuState, x + 4, overflow_checks)
            IN  /\ stored.i = i + x + 1
                /\ restored.i = i + x + 1
                /\ \A r \in 0 .. x : restored.V[r] = gp_registers[r]

\* the FX65 of the round trip of V0 .. VF through 0x300 has executed
C30_Witness ==
    /\ loop_pc = "reset_keys" /\ res.kind = "Ok" /\ instruction = 65381
    /\ i = 768 + 16
    /\ \A r \in 0 .. 15 : gp_registers[r] = (250 + r) % 256

\* ------------------------------------------------------------------------
\* The index register

\* this transition is a step that executes FXnn with the low byte nn
IndexOpTaken(nn) == StepTaken /\ FamilyOf(Fetched) = 15 /\ NNOf(Fetched) = nn

\* C31: after FX33 with v in V[X], mem[I], mem[I + 1] and mem[I + 2] hold
\* v / 100, (v / 10) % 10 and v % 10, and V, I and every other byte of
\* memory are unchanged.
C31_BcdLaw ==
    [][IndexOpTaken(51) /\ i + 2 < MEM_LEN =>
         LET v == gp_registers[XOf(Fetched)]
         IN  /\ res'.kind = "Ok"
             /\ Get(mem', i) = v \div 100
             /\ Get(mem', i + 1) = (v \div 10) % 10
             /\ Get(mem', i + 2) = v % 10
             /\ gp_registers' = gp_registers /\ i' = i
             /\ \A a \in (DOMAIN mem \cup DOMAIN mem') \ {i, i + 1, i + 2} :
                   Get(mem', a) = Get(mem, a)]_vars

\* FX33 has stored 2, 5, 5 at 0x300 for V0 = 255
C31_Witness ==
    /\ loop_pc = "reset_keys" /\ res.kind = "Ok" /\ instruction = 61491
    /\ gp_registers[0] = 255 /\ i = 768
    /\ Get(mem, 768) = 2 /\ Get(mem, 769) = 5 /\ Get(mem, 770) = 5

\* C35: FX1E sets I to (I + V[X]) mod 2^16 and always succeeds, a sum above
\* 0xFFFF wrapping; the registers, VF included, are unchanged.
C35_AddToIndexWraps ==
    [][IndexOpTaken(30) =>
         /\ res'.kind = "Ok"
         /\ i' = (i + gp_registers[XOf(Fetched)]) % 65536
         /\ gp_registers' = gp_registers]_vars

\* C39: whenever FX33, FX55, FX65 or DXYN is about to execute, the addresses
\* it reaches through I (I .. I + 2, I .. I + X, I .. I + N - 1) are inside
\* memory.
C39_IndexInsideMemory ==
    (loop_pc = "step" /\ CanFetch(mem, pc)) =>
        /\ (FamilyOf(Fetched) = 15 /\ NNOf(Fetched) = 51) => i + 2 < MEM_LEN
        /\ (FamilyOf(Fetched) = 15 /\ NNOf(Fetched) \in {85, 101}) =>
               i + XOf(Fetched) < MEM_LEN
        /\ (FamilyOf(Fetched) = 13 /\ NOf(Fetched) > 0) =>
               i + NOf(Fetched) - 1 < MEM_LEN

\* ------------------------------------------------------------------------
\* Skips, CLS and the framebuffer

\* the condition on which the skip instruction instr skips, V being the
\* registers
SkipCondition(instr, V) ==
    CASE FamilyOf(instr) = 3 -> V[XOf(instr)] = NNOf(instr)
      [] FamilyOf(instr) = 4 -> V[XOf(instr)] # NNOf(instr)
      [] FamilyOf(instr) = 5 -> V[XOf(instr)] = V[YOf(instr)]
      [] OTHER -> V[XOf(instr)] # V[YOf(instr)]

\* this transition is a step that executes 3XKK, 4XKK, 5XY0 or 9XY0
SkipTaken ==
    /\ StepTaken
    /\ \/ FamilyOf(Fetched) \in {3, 4}
       \/ FamilyOf(Fetched) \in {5, 9} /\ NOf(Fetched) = 0

\* C32: 3XKK, 4XKK, 5XY0 and 9XY0 advance PC by 4 when their condition
\* holds and by 2 when it does not, and change no register.
C32_SkipsAdvance ==
    [][SkipTaken =>
         /\ res'.kind = "Ok"
         /\ pc' = IF SkipCondition(Fetched, gp_registers) THEN pc + 4 ELSE pc + 2
         /\ gp_registers' = gp_registers]_vars

\* a 4XKK with V[X] # KK has skipped to 0x208
C32_Witness ==
    /\ loop_pc = "reset_keys" /\ res.kind = "Ok"
    /\ FamilyOf(instruction) = 4 /\ pc = 520
    /\ gp_registers[XOf(instruction)] # NNOf(instruction)

\* C33: after 00E0 no pixel of the framebuffer is 1, PC has advanced by 2
\* and the registers, I, memory and the stack are unchanged.
C33_ClsClears ==
    [][StepTaken /\ Fetched = 224 =>
         /\ res'.kind = "Ok"
         /\ \A p \in 0 .. WIDTH * HEIGHT - 1 : Get(d_buffer', p) # 1
         /\ pc' = pc + 2
         /\ UNCHANGED <<gp_registers, i, mem, stack>>]_vars

\* 00E0 has cleared a framebuffer of which the window still shows the
\* pixels
C33_Witness ==
    /\ loop_pc = "reset_keys" /\ res.kind = "Ok" /\ instruction = 224
    /\ d_buffer = ZeroVec /\ scaled_buffer # ZeroVec

\* C36: every cell of the framebuffer holds 0 or 1 in every state.
C36_PixelsAreBits == \A p \in DOMAIN d_buffer : d_buffer[p] \in {0, 1}

\* the DRW after a DRW and a CLS has set pixels
C36_Witness ==
    /\ loop_pc = "reset_keys" /\ res.kind = "Ok"
    /\ InstrAt(516) = 224 /\ pc = 522 /\ FamilyOf(instruction) = 13
    /\ d_buffer # ZeroVec

\* ------------------------------------------------------------------------
\* Timers, step by step

\* what a step that fetched makes of timer, load being the low byte of the
\* FXnn that loads it
TimerAfterStep(timer, load) ==
    IF FamilyOf(Fetched) = 15 /\ NNOf(Fetched) = load
    THEN <<gp_registers[XOf(Fetched)], now>>
    ELSE IF timer[1] > 0 /\ now - timer[2] >= 1 THEN <<timer[1] - 1, now>>
    ELSE timer

\* C34: in a step a timer above 0 whose last tick is at least 1/60 s old is
\* decremented by 1 and its instant set to now, any other timer is
\* unchanged, each timer for itself; a timer stays in 0 .. 255 and its value
\* only increases in the step of an FX15 (delay) or FX18 (sound).
C34_TimersPerStep ==
    [][/\ StepTaken =>
            /\ delay_timer' = TimerAfterStep(delay_timer, 21)
            /\ sound_timer' = TimerAfterStep(sound_timer, 24)
       /\ delay_timer'[1] \in 0 .. 255 /\ sound_timer'[1] \in 0 .. 255
       /\ delay_timer'[1] > delay_timer[1] => IndexOpTaken(21)
       /\ sound_timer'[1] > sound_timer[1] => IndexOpTaken(24)]_vars

\* the FX07 of the program that loads both timers has seen the delay timer
\* reach 0 while the sound timer, loaded a tick later, is at 2
C34_Witness ==
    /\ loop_pc = "reset_keys" /\ instruction = 61959
    /\ delay_timer = <<0, 2>> /\ sound_timer = <<2, 2>>
    /\ gp_registers[2] = 0

\* ------------------------------------------------------------------------
\* Failing steps and loading

\* C37: a step that returns an ExecuteError leaves PC, the registers, I, the
\* stack, memory and the framebuffer as they were.
C37_ErrorLeavesState ==
    [][(loop_pc = "step" /\ loop_pc' # "step"
          /\ res'.kind \notin {"NoResult", "Ok", "Panic"}) =>
         UNCHANGED <<pc, gp_registers, i, stack, mem, d_buffer>>]_vars

\* C38: add_program returns an error or copies the whole program: no
\* program that passes the size check reaches past the end of memory.
C38_LoadFitsMemory ==
    [][\A program \in LoadPrograms :
         AddProgram(program) => loop_pc' \in {"done", "step"}]_vars

====
